---------------------------- MODULE Spec2Model ----------------------------
(***************************************************************************)
(* Image-classification worker (src/workers/image-classification/main.py): *)
(* the process supervisor (main / run_pipeline), the metrics extractor     *)
(* (filter_result), the status notifier (update_payload_status), the model *)
(* locator (get_model_path), the HTTP facade (lifespan, /api/metrics,      *)
(* SIGINT handler) and the MJPEG relay (mjpeg_stream).                     *)
(***************************************************************************)
EXTENDS Integers, Sequences, FiniteSets, TLC

(***************************************************************************)
(* Bounds of the model.                                                    *)
(***************************************************************************)
\* Popen calls that may succeed in one run of the worker.
MaxSpawns == 2
\* Lines a pipe holds before a write to it blocks (the OS pipe buffer).
PipeCap == 1
\* Largest reading of time.time() (whole seconds since boot).
MaxTime == 1

\* time.sleep(5) in main's loop.
Cooldown == 5

(***************************************************************************)
(* Python's None for optional values: None is <<>>, a value v is <<v>>.    *)
(***************************************************************************)
None == <<>>

Some(v) == <<v>>

\* None for a path (paths are strings).
NoPath == "None"

(***************************************************************************)
(* Model Locator: get_model_path over a filesystem given as the set of     *)
(* files present.  args.model_parent_dir/<model>/<precision> is "prim",    *)
(* args.model_parent_dir/<model> is "parent", CUSTOM_MODELS_DIR/<model> is *)
(* "custom".                                                               *)
(***************************************************************************)
PrimXml == "prim/model.xml"

PrimLabels == "prim/labels.txt"

PrimProc == "prim/model-proc.json"

ParentLabels == "parent/labels.txt"

ParentProc == "parent/model-proc.json"

CustomDir == "custom/"

CustomXmls == {"custom/a.xml", "custom/b.xml"}

CustomLabels == "custom/labels.txt"

CustomProc == "custom/model-proc.json"

Files ==
    {PrimXml, PrimLabels, PrimProc, ParentLabels, ParentProc, CustomDir,
     CustomLabels, CustomProc} \cup CustomXmls

\* A custom directory that counts only when it holds a labels file.
CustomDirExists_NeedsLabels(files) == CustomLabels \in files

\* custom_model_dir.exists(): the directory itself or anything inside it.
CustomDirExists(files) ==
    \E f \in files : f \in {CustomDir, CustomLabels, CustomProc} \cup CustomXmls

PrimaryAssets(files) ==
    [model_path |-> PrimXml,
     labels_path |->
        IF PrimLabels \in files THEN PrimLabels
        ELSE IF ParentLabels \in files THEN ParentLabels ELSE NoPath,
     model_proc_path |->
        IF PrimProc \in files THEN PrimProc
        ELSE IF ParentProc \in files THEN ParentProc ELSE NoPath]

CustomAssets(files, xml) ==
    [model_path |-> xml,
     labels_path |-> IF CustomLabels \in files THEN CustomLabels ELSE NoPath,
     model_proc_path |-> IF CustomProc \in files THEN CustomProc ELSE NoPath]

NotFound == [model_path |-> NoPath, labels_path |-> NoPath, model_proc_path |-> NoPath]

\* The results get_model_path can return: xml_files[0] of an unordered glob
\* is any of the *.xml files present.
get_model_path(files) ==
    IF PrimXml \in files THEN {PrimaryAssets(files)}
    ELSE IF CustomDirExists(files) /\ (CustomXmls \cap files) # {}
         THEN {CustomAssets(files, x) : x \in CustomXmls \cap files}
         ELSE {NotFound}

(***************************************************************************)
(* Status Notifier: update_payload_status.                                 *)
(***************************************************************************)
\* args.port (default).
ArgsPort == 5024

\* A validation that lets 0 through.
is_valid_id_AcceptsZero(workload_id) == workload_id # None /\ workload_id[1] >= 0

\* is_valid_id on an int or None.
is_valid_id(workload_id) == workload_id # None /\ workload_id[1] > 0

\* `if args.id:` in main.
IdTruthy(workload_id) == workload_id # None /\ workload_id[1] # 0

AllowedScheme == "http"

AllowedNetloc == "127.0.0.1:8080"

ComposedUrl(workload_id) ==
    [scheme |-> AllowedScheme, netloc |-> AllowedNetloc,
     path |-> <<"/api/workloads/", workload_id[1]>>]

\* The PATCH requests one call issues: none for a rejected id.
update_payload_status(workload_id, status) ==
    IF ~is_valid_id(workload_id) THEN <<>>
    ELSE LET url == ComposedUrl(workload_id) IN
         IF url.scheme # AllowedScheme \/ url.netloc # AllowedNetloc THEN <<>>
         ELSE <<[method |-> "PATCH", url |-> url, status |-> status, port |-> ArgsPort]>>

(***************************************************************************)
(* Metrics Extractor: filter_result.  A line is given by what fps_pattern  *)
(* finds in it: whether it matches, groups 1..3 as numbers in hundredths,  *)
(* and group 4 (the parenthesized list) split on commas, each item either  *)
(* a number or BadTok, text float() rejects.                               *)
(***************************************************************************)
BadTok == -1

Line(m, total, streams, avg, hasList, list) ==
    [match |-> m, total |-> total, streams |-> streams,
     avg |-> avg, hasList |-> hasList, list |-> list]

LineOther == Line(FALSE, 0, 0, 0, FALSE, <<>>)

LineA == Line(TRUE, 1250, 2, 625, TRUE, <<610, 640>>)

LineB == Line(TRUE, 3000, 1, 3000, FALSE, <<>>)

LineBadList == Line(TRUE, 1250, 2, 625, TRUE, <<610, BadTok>>)

\* Lines the external process prints on stdout in the supervisor's runs.
StdoutLines == {LineOther, LineA, LineB, LineBadList}

\* Lines on stderr: text, or bytes the text-mode reader cannot decode
\* (reading such a line raises UnicodeDecodeError, on stdout as on stderr).
StderrLines == {"text", "undecodable"}

\* `if all_streams_fps_str:` is false for a missing group and for "()".
ListGiven(line) == line.hasList /\ line.list # <<>>

\* float(x.strip()) raises ValueError inside filter_result.
FilterRaises(line) ==
    line.match /\ ListGiven(line) /\ \E i \in 1..Len(line.list) : line.list[i] = BadTok

AllStreamsFps(line) == IF ListGiven(line) THEN line.list ELSE <<line.avg>>

MinOf(a, b) == IF a <= b THEN a ELSE b

\* A mapping padded with the average rate up to the declared stream count.
FpsStreams_Pads(line) ==
    [i \in 1..line.streams |->
        IF i <= Len(AllStreamsFps(line)) THEN AllStreamsFps(line)[i] ELSE line.avg]

\* {f"stream_id {i+1}": v for i, v in enumerate(all_streams_fps[:number_streams])}
FpsStreams(line) ==
    [i \in 1..MinOf(line.streams, Len(AllStreamsFps(line))) |-> AllStreamsFps(line)[i]]

\* An extractor that answers a line without a match with an empty snapshot.
filter_result_SkeletonOnMiss(line, t) ==
    IF line.match
    THEN Some([total_fps |-> Some(line.total),
               number_streams |-> Some(line.streams),
               average_fps_per_stream |-> Some(line.avg),
               fps_streams |-> Some(FpsStreams(line)),
               timestamp |-> Some(t)])
    ELSE Some([total_fps |-> None, number_streams |-> None,
               average_fps_per_stream |-> None, fps_streams |-> None,
               timestamp |-> None])

\* filter_result on a line that does not raise: None, or the metrics dict.
filter_result(line, t) ==
    IF line.match
    THEN Some([total_fps |-> Some(line.total),
               number_streams |-> Some(line.streams),
               average_fps_per_stream |-> Some(line.avg),
               fps_streams |-> Some(FpsStreams(line)),
               timestamp |-> Some(t)])
    ELSE None

\* A skeleton whose stream count starts at zero.
Skeleton_PartlySet ==
    [total_fps |-> None, number_streams |-> Some(0), average_fps_per_stream |-> None,
     fps_streams |-> None, timestamp |-> None]

\* app.state.pipeline_metrics as lifespan sets it.
Skeleton ==
    [total_fps |-> None, number_streams |-> None, average_fps_per_stream |-> None,
     fps_streams |-> None, timestamp |-> None]

\* An update that leaves the timestamp of the previous snapshot in place.
DictUpdate_KeepsTimestamp(d, other) ==
    [k \in DOMAIN d |-> IF k \in DOMAIN other /\ k # "timestamp" THEN other[k] ELSE d[k]]

\* dict.update(other): every key of other overwrites or is added.
DictUpdate(d, other) ==
    [k \in (DOMAIN d) \cup (DOMAIN other) |-> IF k \in DOMAIN other THEN other[k] ELSE d[k]]

(***************************************************************************)
(* Pipeline Description Builder: build_pipeline.  A token of the command   *)
(* line is a format string k with its string arguments v and its integer   *)
(* arguments n.  A source string is given by its text and by what the      *)
(* string tests of the code find in it; a device name likewise.            *)
(***************************************************************************)
Tok(k) == [k |-> k, v |-> <<>>, n |-> <<>>]

TokS(k, v) == [k |-> k, v |-> v, n |-> <<>>]

TokN(k, n) == [k |-> k, v |-> <<>>, n |-> n]

Bang == Tok("!")

\* input: startswith("/dev/video"), isdigit(), endswith((".mp4", ".avi", ".mov")),
\* startswith("rtsp://").
Source(text, devVideo, digits, videoExt, rtsp) ==
    [text |-> text, devVideo |-> devVideo, digits |-> digits,
     videoExt |-> videoExt, rtsp |-> rtsp]

\* device: "GPU" in device, "CPU" in device.
Device(text, hasGPU, hasCPU) == [text |-> text, hasGPU |-> hasGPU, hasCPU |-> hasCPU]

RECURSIVE Flatten(_)
Flatten(ss) == IF ss = <<>> THEN <<>> ELSE Head(ss) \o Flatten(Tail(ss))

\* The square root rounded down.
CeilSqrt_RoundsDown(n) == CHOOSE c \in 0..n : c * c <= n /\ (c + 1) * (c + 1) > n

\* math.ceil(math.sqrt(n)) for n >= 0.
CeilSqrt(n) == CHOOSE c \in 0..n : c * c >= n /\ (c = 0 \/ (c - 1) * (c - 1) < n)

\* math.ceil(a / b) for a >= 0, b > 0.
CeilDiv(a, b) == (a + b - 1) \div b

\* math.sqrt of a negative number and the division by grid_cols = 0 raise.
CompositorRaises(num_streams) == num_streams <= 0

\* The list comp_props of build_compositor_props, one entry per stream.
build_compositor_props(num_streams, final_width, final_height) ==
    LET grid_cols == CeilSqrt(num_streams)
        grid_rows == CeilDiv(num_streams, grid_cols)
        sub_width == final_width \div grid_cols
        sub_height == final_height \div grid_rows
    IN [j \in 1..num_streams |->
           LET i == j - 1 IN
           [sink |-> i,
            xpos |-> (i % grid_cols) * sub_width,
            ypos |-> (i \div grid_cols) * sub_height,
            width |-> sub_width,
            height |-> sub_height]]

\* " ".join(comp_props).split(): four tokens per stream.
CompPropsTokens(props) ==
    Flatten([j \in 1..Len(props) |->
        <<TokN("sink_::xpos=", <<props[j].sink, props[j].xpos>>),
          TokN("sink_::ypos=", <<props[j].sink, props[j].ypos>>),
          TokN("sink_::width=", <<props[j].sink, props[j].width>>),
          TokN("sink_::height=", <<props[j].sink, props[j].height>>)>>])

is_webcam_input(input) ==
    input.devVideo \/ input.digits \/ (~input.videoExt /\ ~input.rtsp)

DevicePath(input) == IF input.devVideo THEN <<input.text>> ELSE <<"/dev/video", input.text>>

SourceCommand(input, number_of_streams) ==
    IF input.videoExt
    THEN <<Tok("multifilesrc"), TokS("location=", <<input.text>>), Tok("loop=true")>>
    ELSE IF input.rtsp
    THEN <<Tok("rtspsrc"), TokS("location=", <<input.text>>), Tok("protocols=tcp")>>
    ELSE IF number_of_streams > 1
    THEN <<Tok("v4l2src"), TokS("device=", DevicePath(input)), Bang, Tok("videoconvert"),
           Bang, Tok("tee"), Tok("name=camtee"), Bang, Tok("multiqueue"), Tok("name=camq")>>
    ELSE <<Tok("v4l2src"), TokS("device=", DevicePath(input))>>

DecodeElement(input, decode_device) ==
    IF is_webcam_input(input)
    THEN <<Tok("videoconvert"), Bang, Tok("video/x-raw")>>
    ELSE IF input.videoExt
    THEN <<Tok("decodebin3"), Bang, Tok("videoconvert"), Bang, Tok("video/x-raw")>>
    ELSE IF input.rtsp
    THEN IF decode_device.hasGPU
         THEN <<Tok("rtph264depay"), Bang, Tok("avdec_h264"), Bang, Tok("vapostproc"),
                Bang, Tok("video/x-raw(memory:VAMemory)")>>
         ELSE <<Tok("rtph264depay"), Bang, Tok("avdec_h264"), Bang, Tok("videoconvert"),
                Bang, Tok("video/x-raw")>>
    ELSE <<Tok("decodebin3"), Bang, Tok("videoconvert"), Bang, Tok("video/x-raw")>>

InferenceCommand(model_full_path, model_label_path, model_proc_path, device, decode_device, batch_size) ==
    <<Tok("gvaclassify"), TokS("model=", <<model_full_path>>),
      TokS("device=", <<device.text>>), Tok("inference-region=full-frame")>>
    \o (IF model_label_path # NoPath
        THEN <<TokS("labels-file=", <<model_label_path>>)>> ELSE <<>>)
    \o (IF model_proc_path # NoPath
        THEN <<TokS("model-proc=", <<model_proc_path>>)>> ELSE <<>>)
    \o (IF decode_device.hasGPU /\ device.hasGPU
        THEN <<TokN("batch-size=", <<batch_size>>), Tok("nireq=4"),
               Tok("pre-process-backend=va-surface-sharing")>>
        ELSE IF decode_device.hasGPU /\ device.hasCPU
        THEN <<Tok("pre-process-backend=va")>>
        ELSE <<>>)

BranchTail(i) ==
    <<Bang, Tok("queue"), Bang, Tok("gvafpscounter"), Bang, Tok("gvawatermark"), Bang,
      Tok("videoconvert"), Bang, TokN("comp.sink_", <<i>>)>>

\* Branches i = 0 .. count-1 of a `for i in range(count)` loop.
Branches(count, br) == Flatten([j \in 1..(IF count > 0 THEN count ELSE 0) |-> br[j - 1]])

\* build_pipeline; a is the process-wide args the function reads directly.
build_pipeline(a, tcp_port, input, model_full_path, model_label_path, model_proc_path, device, decode_device, batch_size, number_of_streams) ==
    LET source_command == SourceCommand(input, number_of_streams)
        decode_element == DecodeElement(input, decode_device)
        inference_command ==
            InferenceCommand(model_full_path, model_label_path, model_proc_path,
                             device, decode_device, batch_size)
        comp_props ==
            CompPropsTokens(build_compositor_props(a.number_of_streams, a.width_limit,
                                                   a.height_limit))
        head ==
            <<Tok("gst-launch-1.0"), Tok("compositor"), Tok("name=comp")>> \o comp_props
            \o <<Bang, Tok("jpegenc"), Bang, Tok("multipartmux"), Tok("boundary=frame"),
                 Bang, Tok("tcpserversink"), Tok("host=127.0.0.1"),
                 TokN("port=", <<tcp_port>>)>>
        TeeBranch(i) ==
            <<Tok("camtee."), Bang, Tok("queue"), Tok("max-size-buffers=10"),
              Tok("leaky=downstream"), Bang>>
            \o decode_element \o <<Bang>> \o inference_command \o BranchTail(i)
        OwnBranch(i) ==
            source_command \o <<Bang>> \o decode_element \o <<Bang>>
            \o inference_command \o BranchTail(i)
    IN IF input.devVideo /\ number_of_streams > 1
       THEN head \o source_command
            \o Branches(number_of_streams, [i \in 0..(number_of_streams - 1) |-> TeeBranch(i)])
       ELSE head \o Branches(number_of_streams, [i \in 0..(number_of_streams - 1) |-> OwnBranch(i)])

(***************************************************************************)
(* State of the worker.                                                    *)
(***************************************************************************)
VARIABLES
    args,             \* parse_arguments(): the process-wide configuration
    fs,               \* files present on disk
    worker,           \* the server process: "serving", "joining" (lifespan's thread.join), "exited"
    supPc,            \* position of the supervisor thread (main / run_pipeline)
    assets,           \* model_path, labels_path, model_proc_path of main
    pipeline,         \* the token list main last built
    processVar,       \* run_pipeline's local `process`: "unbound" or "bound"
    raised,           \* exception propagating in the supervisor thread
    procs,            \* every external process spawned so far, in spawn order
    returncode,       \* process.returncode of the current handle
    stdoutBuf,        \* lines in the current process's stdout pipe
    lastLine,         \* run_pipeline's local `line`: the stdout line last read
    stderrBuf,        \* lines in the current process's stderr pipe
    stdoutOpen,       \* the process still holds the write end of stdout
    stderrOpen,       \* the process still holds the write end of stderr
    procBlocked,      \* the pipe the process is blocked writing to, or "none"
    eof,              \* streams of the current handle the supervisor read to end-of-stream
    excSeen,          \* the current run_pipeline call raised
    pipeline_metrics, \* app.state.pipeline_metrics
    lastUpdate,       \* the dict the last matching filter_result call returned
    lastRead,         \* body of the last /api/metrics response
    now,              \* time.time()
    sleepLeft,        \* seconds left of time.sleep(5)
    notifyLog,        \* statuses passed to update_payload_status
    patchLog,         \* PATCH requests issued, each with its outcome
    relayPc,          \* position of one /result request (get_mjpeg_stream / mjpeg_stream)
    buffer,           \* mjpeg_stream's buffer
    emitted,          \* multipart parts the generator has yielded
    received,         \* every byte recv has returned on this connection
    reads,            \* recv calls that returned data
    response,         \* what the client of /result was answered
    sock,             \* client_socket of the current request
    requests,         \* GET /result requests received so far
    connects,         \* client_socket.connect calls made so far
    call,             \* a function called on its own, with its arguments
    result            \* what that call returned or raised

supVars ==
    <<args, fs, worker, supPc, assets, pipeline, processVar, raised, procs, returncode,
      stdoutBuf, lastLine, stderrBuf, stdoutOpen, stderrOpen, procBlocked, eof, excSeen,
      pipeline_metrics, lastUpdate, lastRead, now, sleepLeft, notifyLog, patchLog>>

relayVars == <<relayPc, buffer, emitted, received, reads, response, sock, requests, connects>>

fnVars == <<call, result>>

vars == <<supVars, relayVars, fnVars>>

(***************************************************************************)
(* Configurations and filesystems the supervisor is run under.             *)
(***************************************************************************)
\* --id: absent, or an int.
WorkloadIds == {None, Some(0), Some(-5), Some(42)}

\* The ids the supervisor is run with: absent, rejected by is_valid_id, valid.
SupIds == {None, Some(-5), Some(42)}

DefaultArgs(id, streams) ==
    [id |-> id,
     input |-> Source("../assets/media/people-detection.mp4", FALSE, FALSE, TRUE, FALSE),
     device |-> Device("CPU", FALSE, TRUE),
     decode_device |-> Device("CPU", FALSE, TRUE),
     batch_size |-> 1,
     tcp_port |-> 5000,
     number_of_streams |-> streams,
     width_limit |-> 640,
     height_limit |-> 480]

SupArgs == {DefaultArgs(id, n) : id \in SupIds, n \in {0, 1}}

SupFs == {{}, {PrimXml, ParentLabels}}

Outcomes == {"ok", "rejected", "unreachable"}

\* Exit codes of a process that ends by itself.
ExitCodes == {0, 1}

\* The worker once lifespan has set the metrics skeleton and started the
\* supervisor thread, under configuration a and filesystem f.
SupStart(a, f) ==
    /\ args = a
    /\ fs = f
    /\ worker = "serving"
    /\ supPc = "main"
    /\ assets = NotFound
    /\ pipeline = <<>>
    /\ processVar = "unbound"
    /\ raised = "none"
    /\ procs = <<>>
    /\ returncode = None
    /\ stdoutBuf = <<>>
    /\ lastLine = None
    /\ stderrBuf = <<>>
    /\ stdoutOpen = FALSE
    /\ stderrOpen = FALSE
    /\ procBlocked = "none"
    /\ eof = [out |-> FALSE, err |-> FALSE]
    /\ excSeen = FALSE
    /\ pipeline_metrics = Skeleton
    /\ lastUpdate = Skeleton
    /\ lastRead = None
    /\ now = 0
    /\ sleepLeft = 0
    /\ notifyLog = <<>>
    /\ patchLog = <<>>

RelayIdle ==
    /\ relayPc = "idle"
    /\ buffer = <<>>
    /\ emitted = <<>>
    /\ received = <<>>
    /\ reads = 0
    /\ response = "none"
    /\ sock = "none"
    /\ requests = 0
    /\ connects = 0

\* No function is being called on its own.
FnIdle ==
    /\ call = [fn |-> "none"]
    /\ result = None

SupInit == \E a \in SupArgs, f \in SupFs : SupStart(a, f)

Init == SupInit /\ RelayIdle /\ FnIdle

(***************************************************************************)
(* The supervisor thread: main and run_pipeline.                           *)
(***************************************************************************)
\* The daemon thread runs as long as the interpreter does.
SupRuns == worker # "exited"

CurAlive == procs # <<>> /\ procs[Len(procs)] = "running"

\* The supervisor holds the read ends of the current process's pipes.
PipesAttached == processVar = "bound" /\ worker # "exited"

\* update_payload_status(args.id, status) under `if args.id:`; the request's
\* outcome is swallowed by the except clause.
Notify(status) ==
    IF IdTruthy(args.id)
    THEN /\ notifyLog' = Append(notifyLog, status)
         /\ LET reqs == update_payload_status(args.id, status) IN
            IF reqs = <<>>
            THEN patchLog' = patchLog
            ELSE \E o \in Outcomes : patchLog' = Append(patchLog, [req |-> reqs[1], outcome |-> o])
    ELSE UNCHANGED <<notifyLog, patchLog>>

\* main: get_model_path(args.model, args.model_precision).
Locate ==
    /\ SupRuns
    /\ supPc = "main"
    /\ \E r \in get_model_path(fs) :
        /\ assets' = r
        /\ supPc' = IF r.model_path = NoPath THEN "notfound" ELSE "found"
    /\ UNCHANGED <<args, fs, worker, pipeline, processVar, raised, procs, returncode,
                   stdoutBuf, stderrBuf, stdoutOpen, stderrOpen, procBlocked, eof, excSeen,
                   pipeline_metrics, lastUpdate, lastRead, now, sleepLeft, notifyLog,
                   patchLog, relayVars, fnVars,
                   lastLine>>

\* A main that reports the error and, lacking the return, goes on.
NotFoundExit_FallsThrough ==
    /\ SupRuns
    /\ supPc = "notfound"
    /\ Notify("error")
    /\ supPc' = "found"
    /\ UNCHANGED <<args, fs, worker, assets, pipeline, processVar, raised, procs,
                   returncode, stdoutBuf, stderrBuf, stdoutOpen, stderrOpen, procBlocked,
                   eof, excSeen, pipeline_metrics, lastUpdate, lastRead, now, sleepLeft,
                   relayVars, fnVars,
                   lastLine>>

\* A main that reports the error and locates the model again.
NotFoundExit_Retries ==
    /\ SupRuns
    /\ supPc = "notfound"
    /\ Notify("error")
    /\ supPc' = "main"
    /\ UNCHANGED <<args, fs, worker, assets, pipeline, processVar, raised, procs,
                   returncode, stdoutBuf, stderrBuf, stdoutOpen, stderrOpen, procBlocked,
                   eof, excSeen, pipeline_metrics, lastUpdate, lastRead, now, sleepLeft,
                   relayVars, fnVars,
                   lastLine>>

\* main: `if model_path is None:` ... return.
NotFoundExit ==
    /\ SupRuns
    /\ supPc = "notfound"
    /\ Notify("error")
    /\ supPc' = "returned"
    /\ UNCHANGED <<args, fs, worker, assets, pipeline, processVar, raised, procs,
                   returncode, stdoutBuf, stderrBuf, stdoutOpen, stderrOpen, procBlocked,
                   eof, excSeen, pipeline_metrics, lastUpdate, lastRead, now, sleepLeft,
                   relayVars, fnVars,
                   lastLine>>

\* A supervisor that gives up when the "active" callback does not succeed.
ReportActive_StopsOnFailure ==
    /\ SupRuns
    /\ supPc = "found"
    /\ Notify("active")
    /\ supPc' =
        (IF patchLog' # patchLog /\ patchLog'[Len(patchLog')].outcome # "ok"
         THEN "returned" ELSE "build")
    /\ UNCHANGED <<args, fs, worker, assets, pipeline, processVar, raised, procs,
                   returncode, stdoutBuf, stderrBuf, stdoutOpen, stderrOpen, procBlocked,
                   eof, excSeen, pipeline_metrics, lastUpdate, lastRead, now, sleepLeft,
                   relayVars, fnVars, lastLine>>

\* main: update_payload_status(args.id, "active") before the loop.
ReportActive ==
    /\ SupRuns
    /\ supPc = "found"
    /\ Notify("active")
    /\ supPc' = "build"
    /\ UNCHANGED <<args, fs, worker, assets, pipeline, processVar, raised, procs,
                   returncode, stdoutBuf, stderrBuf, stdoutOpen, stderrOpen, procBlocked,
                   eof, excSeen, pipeline_metrics, lastUpdate, lastRead, now, sleepLeft,
                   relayVars, fnVars,
                   lastLine>>

\* A loop that reports "active" on every iteration.
Build_NotifiesActive ==
    /\ SupRuns
    /\ supPc = "build"
    /\ Notify("active")
    /\ IF CompositorRaises(args.number_of_streams)
       THEN /\ raised' = "ZeroDivisionError"
            /\ supPc' = "crashed"
            /\ UNCHANGED pipeline
       ELSE /\ pipeline' =
                build_pipeline(args, args.tcp_port, args.input, assets.model_path,
                               assets.labels_path, assets.model_proc_path, args.device,
                               args.decode_device, args.batch_size, args.number_of_streams)
            /\ supPc' = "popen"
            /\ UNCHANGED raised
    /\ UNCHANGED <<args, fs, worker, assets, processVar, procs, returncode, stdoutBuf,
                   stderrBuf, stdoutOpen, stderrOpen, procBlocked, eof, excSeen,
                   pipeline_metrics, lastUpdate, lastRead, now, sleepLeft, relayVars, fnVars,
                   lastLine>>

\* main's loop: pipeline = build_pipeline(...); an exception of the builder
\* leaves main.
Build ==
    /\ SupRuns
    /\ supPc = "build"
    /\ IF CompositorRaises(args.number_of_streams)
       THEN /\ raised' = "ZeroDivisionError"
            /\ supPc' = "crashed"
            /\ UNCHANGED pipeline
       ELSE /\ pipeline' =
                build_pipeline(args, args.tcp_port, args.input, assets.model_path,
                               assets.labels_path, assets.model_proc_path, args.device,
                               args.decode_device, args.batch_size, args.number_of_streams)
            /\ supPc' = "popen"
            /\ UNCHANGED raised
    /\ UNCHANGED <<args, fs, worker, assets, processVar, procs, returncode, stdoutBuf,
                   stderrBuf, stdoutOpen, stderrOpen, procBlocked, eof, excSeen,
                   pipeline_metrics, lastUpdate, lastRead, now, sleepLeft, notifyLog,
                   patchLog, relayVars, fnVars,
                   lastLine>>

\* run_pipeline: sp.Popen(...) returns a handle.
PopenOk ==
    /\ SupRuns
    /\ supPc = "popen"
    /\ Len(procs) < MaxSpawns
    /\ procs' = Append(procs, "running")
    /\ processVar' = "bound"
    /\ returncode' = None
    /\ stdoutBuf' = <<>>
    /\ stderrBuf' = <<>>
    /\ stdoutOpen' = TRUE
    /\ stderrOpen' = TRUE
    /\ procBlocked' = "none"
    /\ eof' = [out |-> FALSE, err |-> FALSE]
    /\ excSeen' = FALSE
    /\ supPc' = "stdout_loop"
    /\ UNCHANGED <<args, fs, worker, assets, pipeline, raised, pipeline_metrics,
                   lastUpdate, lastRead, now, sleepLeft, notifyLog, patchLog, relayVars, fnVars,
                   lastLine>>

\* run_pipeline: sp.Popen(...) raises (OSError); `process` is never bound.
PopenFails ==
    /\ SupRuns
    /\ supPc = "popen"
    /\ raised' = "OSError"
    /\ excSeen' = TRUE
    /\ eof' = [out |-> FALSE, err |-> FALSE]
    /\ supPc' = "except"
    /\ UNCHANGED <<args, fs, worker, assets, pipeline, processVar, procs, returncode,
                   stdoutBuf, stderrBuf, stdoutOpen, stderrOpen, procBlocked,
                   pipeline_metrics, lastUpdate, lastRead, now, sleepLeft, notifyLog,
                   patchLog, relayVars, fnVars,
                   lastLine>>

\* One iteration of `for line in process.stdout:`.
ReadStdout ==
    /\ SupRuns
    /\ supPc = "stdout_loop"
    /\ stdoutBuf # <<>>
    /\ stdoutBuf' = Tail(stdoutBuf)
    /\ lastLine' = Some(Head(stdoutBuf))
    /\ LET line == Head(stdoutBuf) IN
       IF FilterRaises(line)
       THEN /\ raised' = "ValueError"
            /\ excSeen' = TRUE
            /\ supPc' = "except"
            /\ UNCHANGED <<pipeline_metrics, lastUpdate>>
       ELSE /\ LET metrics == filter_result(line, now) IN
               IF metrics # None
               THEN /\ pipeline_metrics' = DictUpdate(pipeline_metrics, metrics[1])
                    /\ lastUpdate' = metrics[1]
               ELSE UNCHANGED <<pipeline_metrics, lastUpdate>>
            /\ UNCHANGED <<raised, excSeen, supPc>>
    /\ UNCHANGED <<args, fs, worker, assets, pipeline, processVar, procs, returncode,
                   stderrBuf, stdoutOpen, stderrOpen, procBlocked, eof, lastRead, now,
                   sleepLeft, notifyLog, patchLog, relayVars, fnVars>>

\* `for line in process.stdout:` ends at end-of-stream.
StdoutEof ==
    /\ SupRuns
    /\ supPc = "stdout_loop"
    /\ stdoutBuf = <<>>
    /\ ~stdoutOpen
    /\ eof' = [eof EXCEPT !.out = TRUE]
    /\ supPc' = "stderr_loop"
    /\ UNCHANGED <<args, fs, worker, assets, pipeline, processVar, raised, procs,
                   returncode, stdoutBuf, stderrBuf, stdoutOpen, stderrOpen, procBlocked,
                   excSeen, pipeline_metrics, lastUpdate, lastRead, now, sleepLeft,
                   notifyLog, patchLog, relayVars, fnVars,
                   lastLine>>

\* One iteration of `for error_line in process.stderr:`.
ReadStderr ==
    /\ SupRuns
    /\ supPc = "stderr_loop"
    /\ stderrBuf # <<>>
    /\ stderrBuf' = Tail(stderrBuf)
    /\ IF Head(stderrBuf) = "undecodable"
       THEN /\ raised' = "UnicodeDecodeError"
            /\ excSeen' = TRUE
            /\ supPc' = "except"
       ELSE UNCHANGED <<raised, excSeen, supPc>>
    /\ UNCHANGED <<args, fs, worker, assets, pipeline, processVar, procs, returncode,
                   stdoutBuf, stdoutOpen, stderrOpen, procBlocked, eof, pipeline_metrics,
                   lastUpdate, lastRead, now, sleepLeft, notifyLog, patchLog, relayVars, fnVars,
                   lastLine>>

\* `for error_line in process.stderr:` ends at end-of-stream.
StderrEof ==
    /\ SupRuns
    /\ supPc = "stderr_loop"
    /\ stderrBuf = <<>>
    /\ ~stderrOpen
    /\ eof' = [eof EXCEPT !.err = TRUE]
    /\ supPc' = "check_returncode"
    /\ UNCHANGED <<args, fs, worker, assets, pipeline, processVar, raised, procs,
                   returncode, stdoutBuf, stderrBuf, stdoutOpen, stderrOpen, procBlocked,
                   excSeen, pipeline_metrics, lastUpdate, lastRead, now, sleepLeft,
                   notifyLog, patchLog, relayVars, fnVars,
                   lastLine>>

\* `if process.returncode == 0 or process.returncode is None:`.
CheckReturncode ==
    /\ SupRuns
    /\ supPc = "check_returncode"
    /\ supPc' = IF returncode = None \/ returncode = Some(0) THEN "communicate" ELSE "finally"
    /\ UNCHANGED <<args, fs, worker, assets, pipeline, processVar, raised, procs,
                   returncode, stdoutBuf, stderrBuf, stdoutOpen, stderrOpen, procBlocked,
                   eof, excSeen, pipeline_metrics, lastUpdate, lastRead, now, sleepLeft,
                   notifyLog, patchLog, relayVars, fnVars,
                   lastLine>>

\* process.communicate(): returns once the process has exited.
Communicate ==
    /\ SupRuns
    /\ supPc = "communicate"
    /\ ~CurAlive
    /\ \E c \in ExitCodes : returncode' = Some(c)
    /\ supPc' = "finally"
    /\ UNCHANGED <<args, fs, worker, assets, pipeline, processVar, raised, procs,
                   stdoutBuf, stderrBuf, stdoutOpen, stderrOpen, procBlocked, eof, excSeen,
                   pipeline_metrics, lastUpdate, lastRead, now, sleepLeft, notifyLog,
                   patchLog, relayVars, fnVars,
                   lastLine>>

\* Handlers that leave a running process alone.
TerminateAndWait_Skips(ps) == ps

\* `if process.poll() is None: process.terminate(); process.wait()` on a
\* bound handle: the processes afterwards.
TerminateAndWait(ps) ==
    IF ps # <<>> /\ ps[Len(ps)] = "running"
    THEN [ps EXCEPT ![Len(ps)] = "exited"]
    ELSE ps

\* SIGTERM's code as wait() reports it.
Sigterm == -15

\* The handle and the process after poll / terminate / wait: poll reports the
\* code of a process that had exited, wait the signal that ended it.
Reap ==
    /\ procs' = TerminateAndWait(procs)
    /\ IF CurAlive
       THEN /\ returncode' = IF procs'[Len(procs')] = "exited" THEN Some(Sigterm) ELSE returncode
            /\ IF procs'[Len(procs')] = "exited"
               THEN /\ stdoutOpen' = FALSE
                    /\ stderrOpen' = FALSE
                    /\ procBlocked' = "none"
               ELSE UNCHANGED <<stdoutOpen, stderrOpen, procBlocked>>
       ELSE /\ \E c \in ExitCodes : returncode' = IF returncode = None THEN Some(c) ELSE returncode
            /\ UNCHANGED <<stdoutOpen, stderrOpen, procBlocked>>

\* `except Exception as e:` of run_pipeline.
ExceptHandler ==
    /\ SupRuns
    /\ supPc = "except"
    /\ IF processVar = "unbound"
       THEN /\ raised' = "UnboundLocalError"
            /\ UNCHANGED <<procs, returncode, stdoutOpen, stderrOpen, procBlocked>>
       ELSE /\ raised' = "none"
            /\ Reap
    /\ supPc' = "finally"
    /\ UNCHANGED <<args, fs, worker, assets, pipeline, processVar, stdoutBuf, stderrBuf,
                   eof, excSeen, pipeline_metrics, lastUpdate, lastRead, now, sleepLeft,
                   notifyLog, patchLog, relayVars, fnVars,
                   lastLine>>

\* `finally:` of run_pipeline, then its return into main's loop
\* (logging, time.sleep(5)) or the exception leaving main.
FinallyClause ==
    /\ SupRuns
    /\ supPc = "finally"
    /\ IF processVar = "unbound"
       THEN /\ raised' = "UnboundLocalError"
            /\ supPc' = "crashed"
            /\ UNCHANGED <<procs, returncode, stdoutOpen, stderrOpen, procBlocked,
                           processVar, sleepLeft>>
       ELSE /\ Reap
            /\ processVar' = "unbound"
            /\ UNCHANGED raised
            /\ IF raised = "none"
               THEN supPc' = "returned_to_loop"
               ELSE supPc' = "crashed"
            /\ UNCHANGED sleepLeft
    /\ UNCHANGED <<args, fs, worker, assets, pipeline, stdoutBuf, stderrBuf, eof, excSeen,
                   pipeline_metrics, lastUpdate, lastRead, now, notifyLog, patchLog,
                   relayVars, fnVars,
                   lastLine>>

\* A loop that clears the snapshot when a run has ended.
LoopSleep_ResetsMetrics ==
    /\ SupRuns
    /\ supPc = "returned_to_loop"
    /\ returncode' = None
    /\ stdoutBuf' = <<>>
    /\ stderrBuf' = <<>>
    /\ lastLine' = None
    /\ pipeline_metrics' = Skeleton
    /\ lastUpdate' = Skeleton
    /\ supPc' = "sleep"
    /\ sleepLeft' = Cooldown
    /\ UNCHANGED <<args, fs, worker, assets, pipeline, processVar, raised, procs,
                   stdoutOpen, stderrOpen, procBlocked, eof, excSeen, lastRead, now,
                   notifyLog, patchLog, relayVars, fnVars>>

\* main's loop after run_pipeline returned: the handle and the other locals
\* of the call are gone and its pipes are closed; logging.info(...), then
\* time.sleep(5) begins.
LoopSleep ==
    /\ SupRuns
    /\ supPc = "returned_to_loop"
    /\ returncode' = None
    /\ stdoutBuf' = <<>>
    /\ stderrBuf' = <<>>
    /\ lastLine' = None
    /\ supPc' = "sleep"
    /\ sleepLeft' = Cooldown
    /\ UNCHANGED <<args, fs, worker, assets, pipeline, processVar, raised, procs,
                   stdoutOpen, stderrOpen, procBlocked, eof, excSeen, pipeline_metrics,
                   lastUpdate, lastRead, now, notifyLog, patchLog, relayVars, fnVars>>

\* One second of time.sleep(5).
SleepSecond ==
    /\ SupRuns
    /\ supPc = "sleep"
    /\ sleepLeft > 0
    /\ sleepLeft' = sleepLeft - 1
    /\ now' = IF now < MaxTime THEN now + 1 ELSE now
    /\ UNCHANGED <<args, fs, worker, supPc, assets, pipeline, processVar, raised, procs,
                   returncode, stdoutBuf, stderrBuf, stdoutOpen, stderrOpen, procBlocked,
                   eof, excSeen, pipeline_metrics, lastUpdate, lastRead, notifyLog,
                   patchLog, relayVars, fnVars,
                   lastLine>>

\* time.sleep(5) returns; `while True:` goes round.
WakeUp ==
    /\ SupRuns
    /\ supPc = "sleep"
    /\ sleepLeft = 0
    /\ supPc' = "build"
    /\ UNCHANGED <<args, fs, worker, assets, pipeline, processVar, raised, procs,
                   returncode, stdoutBuf, stderrBuf, stdoutOpen, stderrOpen, procBlocked,
                   eof, excSeen, pipeline_metrics, lastUpdate, lastRead, now, sleepLeft,
                   notifyLog, patchLog, relayVars, fnVars,
                   lastLine>>

(***************************************************************************)
(* The external pipeline process, as far as the worker sees it: it writes  *)
(* lines to its two pipes, closes them, and exits.                         *)
(***************************************************************************)
\* write(1, line): completes if the pipe has room, blocks otherwise.
ProcWriteStdout ==
    /\ CurAlive
    /\ PipesAttached
    /\ stdoutOpen
    /\ procBlocked = "none"
    /\ IF Len(stdoutBuf) < PipeCap
       THEN /\ \E l \in StdoutLines : stdoutBuf' = Append(stdoutBuf, l)
            /\ UNCHANGED procBlocked
       ELSE /\ procBlocked' = "stdout"
            /\ UNCHANGED stdoutBuf
    /\ UNCHANGED <<args, fs, worker, supPc, assets, pipeline, processVar, raised, procs,
                   returncode, stderrBuf, stdoutOpen, stderrOpen, eof, excSeen,
                   pipeline_metrics, lastUpdate, lastRead, now, sleepLeft, notifyLog,
                   patchLog, relayVars, fnVars,
                   lastLine>>

\* write(2, line).
ProcWriteStderr ==
    /\ CurAlive
    /\ PipesAttached
    /\ stderrOpen
    /\ procBlocked = "none"
    /\ IF Len(stderrBuf) < PipeCap
       THEN /\ \E l \in StderrLines : stderrBuf' = Append(stderrBuf, l)
            /\ UNCHANGED procBlocked
       ELSE /\ procBlocked' = "stderr"
            /\ UNCHANGED stderrBuf
    /\ UNCHANGED <<args, fs, worker, supPc, assets, pipeline, processVar, raised, procs,
                   returncode, stdoutBuf, stdoutOpen, stderrOpen, eof, excSeen,
                   pipeline_metrics, lastUpdate, lastRead, now, sleepLeft, notifyLog,
                   patchLog, relayVars, fnVars,
                   lastLine>>

\* A blocked write completes once the reader has made room.
ProcResume ==
    /\ CurAlive
    /\ PipesAttached
    /\ procBlocked # "none"
    /\ IF procBlocked = "stdout"
       THEN /\ Len(stdoutBuf) < PipeCap
            /\ \E l \in StdoutLines : stdoutBuf' = Append(stdoutBuf, l)
            /\ UNCHANGED stderrBuf
       ELSE /\ Len(stderrBuf) < PipeCap
            /\ \E l \in StderrLines : stderrBuf' = Append(stderrBuf, l)
            /\ UNCHANGED stdoutBuf
    /\ procBlocked' = "none"
    /\ UNCHANGED <<args, fs, worker, supPc, assets, pipeline, processVar, raised, procs,
                   returncode, stdoutOpen, stderrOpen, eof, excSeen, pipeline_metrics,
                   lastUpdate, lastRead, now, sleepLeft, notifyLog, patchLog, relayVars, fnVars,
                   lastLine>>

\* The process exits by itself (a blocked write keeps it from doing so while
\* the pipes have a reader); its pipe ends close.
ProcExit ==
    /\ CurAlive
    /\ procBlocked = "none" \/ ~PipesAttached
    /\ procs' = [procs EXCEPT ![Len(procs)] = "exited"]
    /\ stdoutOpen' = FALSE
    /\ stderrOpen' = FALSE
    /\ procBlocked' = "none"
    /\ UNCHANGED <<args, fs, worker, supPc, assets, pipeline, processVar, raised,
                   returncode, stdoutBuf, stderrBuf, eof, excSeen, pipeline_metrics,
                   lastUpdate, lastRead, now, sleepLeft, notifyLog, patchLog, relayVars, fnVars,
                   lastLine>>

(***************************************************************************)
(* The HTTP facade and the server process.                                 *)
(***************************************************************************)
\* GET /api/metrics: the response body.
GetMetrics ==
    /\ worker = "serving"
    /\ lastRead' = Some([data |-> pipeline_metrics, status |-> "success"])
    /\ UNCHANGED <<args, fs, worker, supPc, assets, pipeline, processVar, raised, procs,
                   returncode, stdoutBuf, stderrBuf, stdoutOpen, stderrOpen, procBlocked,
                   eof, excSeen, pipeline_metrics, lastUpdate, now, sleepLeft, notifyLog,
                   patchLog, relayVars, fnVars,
                   lastLine>>

\* stop_signal_handler: exit(0); the daemon thread dies with the interpreter.
Sigint ==
    /\ worker # "exited"
    /\ worker' = "exited"
    /\ UNCHANGED <<args, fs, supPc, assets, pipeline, processVar, raised, procs,
                   returncode, stdoutBuf, stderrBuf, stdoutOpen, stderrOpen, procBlocked,
                   eof, excSeen, pipeline_metrics, lastUpdate, lastRead, now, sleepLeft,
                   notifyLog, patchLog, relayVars, fnVars,
                   lastLine>>

\* lifespan after `yield`: thread.join() is entered.
LifespanShutdown ==
    /\ worker = "serving"
    /\ worker' = "joining"
    /\ UNCHANGED <<args, fs, supPc, assets, pipeline, processVar, raised, procs,
                   returncode, stdoutBuf, stderrBuf, stdoutOpen, stderrOpen, procBlocked,
                   eof, excSeen, pipeline_metrics, lastUpdate, lastRead, now, sleepLeft,
                   notifyLog, patchLog, relayVars, fnVars,
                   lastLine>>

\* thread.join() returns once main has returned or died.
JoinReturns ==
    /\ worker = "joining"
    /\ supPc \in {"returned", "crashed"}
    /\ worker' = "exited"
    /\ UNCHANGED <<args, fs, supPc, assets, pipeline, processVar, raised, procs,
                   returncode, stdoutBuf, stderrBuf, stdoutOpen, stderrOpen, procBlocked,
                   eof, excSeen, pipeline_metrics, lastUpdate, lastRead, now, sleepLeft,
                   notifyLog, patchLog, relayVars, fnVars,
                   lastLine>>

\* The clock advances.
Tick ==
    /\ now < MaxTime
    /\ now' = now + 1
    /\ UNCHANGED <<args, fs, worker, supPc, assets, pipeline, processVar, raised, procs,
                   returncode, stdoutBuf, stderrBuf, stdoutOpen, stderrOpen, procBlocked,
                   eof, excSeen, pipeline_metrics, lastUpdate, lastRead, sleepLeft,
                   notifyLog, patchLog, relayVars, fnVars,
                   lastLine>>

\* Someone installs the weights file that model_path.exists() probes.
InstallWeights ==
    /\ PrimXml \notin fs
    /\ fs' = fs \cup {PrimXml}
    /\ UNCHANGED <<args, worker, supPc, assets, pipeline, processVar, raised, procs,
                   returncode, stdoutBuf, stderrBuf, stdoutOpen, stderrOpen, procBlocked,
                   eof, excSeen, pipeline_metrics, lastUpdate, lastRead, now, sleepLeft,
                   notifyLog, patchLog, relayVars, fnVars,
                   lastLine>>

SupervisorStep ==
    \/ Locate
    \/ NotFoundExit
    \/ ReportActive
    \/ Build
    \/ PopenOk
    \/ PopenFails
    \/ ReadStdout
    \/ StdoutEof
    \/ ReadStderr
    \/ StderrEof
    \/ CheckReturncode
    \/ Communicate
    \/ ExceptHandler
    \/ FinallyClause
    \/ LoopSleep
    \/ SleepSecond
    \/ WakeUp

ProcessStep ==
    \/ ProcWriteStdout
    \/ ProcWriteStderr
    \/ ProcResume
    \/ ProcExit

Next ==
    \/ SupervisorStep
    \/ ProcessStep
    \/ Sigint
    \/ LifespanShutdown
    \/ JoinReturns
    \/ Tick
    \/ InstallWeights

Spec == Init /\ [][Next]_vars

(***************************************************************************)
(* The supervisor with /api/metrics requests served beside it, under the   *)
(* default configuration with the model installed.                         *)
(***************************************************************************)
MetricsInit == (\E f \in SupFs : SupStart(DefaultArgs(None, 1), f)) /\ RelayIdle /\ FnIdle

MetricsNext ==
    \/ SupervisorStep
    \/ ProcessStep
    \/ GetMetrics
    \/ Tick

MetricsSpec == MetricsInit /\ [][MetricsNext]_vars

(***************************************************************************)
(* Stream Relay: one GET /result request, get_mjpeg_stream and the         *)
(* generator mjpeg_stream.  Bytes are "CR", "LF", "J" (a byte of an        *)
(* encoded image) and "X" (any other byte).                                *)
(***************************************************************************)
\* recv calls that return data on one connection.
MaxReads == 4

\* b"\r\n\r\n"
Delim == <<"CR", "LF", "CR", "LF">>

Frame == <<"J">>

\* What one client_socket.recv(4096) returns in the relay's runs.
Chunks ==
    {<<"J">>, <<"X">>, <<"CR">>, <<"LF">>, <<"CR", "LF">>, <<"LF", "CR", "LF">>,
     Frame \o Delim,
     <<"X", "J">> \o Delim \o Frame,
     Frame \o Delim \o <<"J", "J">> \o Delim \o Frame}

\* Index of the first occurrence of the marker in b, 0 if there is none:
\* `b"\r\n\r\n" in buffer` and the split point of buffer.partition.
FindDelim(b) ==
    LET hits == {i \in 1..(Len(b) - 3) : SubSeq(b, i, i + 3) = Delim}
    IN IF hits = {} THEN 0 ELSE CHOOSE i \in hits : \A j \in hits : i <= j

\* frame, _, buffer = buffer.partition(b"\r\n\r\n")
Partition(b) ==
    LET i == FindDelim(b)
    IN [frame |-> SubSeq(b, 1, i - 1), rest |-> SubSeq(b, i + 4, Len(b))]

\* cv2.imdecode gives an image for bytes that begin with an encoded image
\* (bytes after it are ignored); for anything else it gives None or raises.
Decodes(frame) == frame # <<>> /\ frame[1] = "J"

RECURSIVE ImagePrefix(_)
ImagePrefix(frame) ==
    IF frame # <<>> /\ Head(frame) = "J" THEN <<"J">> \o ImagePrefix(Tail(frame)) ELSE <<>>

\* cv2.imencode(".jpg", cv2.imdecode(frame)).tobytes()
Reencode(frame) == ImagePrefix(frame)

\* The part yielded for a frame that decodes.
Part(frame) ==
    [header |-> "--frame\r\nContent-Type: image/jpeg\r\n\r\n", jpeg |-> Reencode(frame),
     trailer |-> "\r\n"]

\* A relay that keeps only the bytes of the last read.
AppendData_DropsRemainder(b, data) == data

\* buffer += data
AppendData(b, data) == b \o data

\* GET /result requests one worker serves in the relay's runs.
MaxRequests == 2

\* get_mjpeg_stream: the StreamingResponse is returned around the generator,
\* which has not run yet, so nothing in the try block raises; the response
\* starts with status 200 and the multipart media type.  A request is taken
\* once the previous one's generator has ended; the generator and its socket
\* are new for each request.
Request ==
    /\ relayPc \in {"idle", "closed", "failed"}
    /\ requests < MaxRequests
    /\ requests' = requests + 1
    /\ response' = "stream"
    /\ relayPc' = "connect"
    /\ sock' = "none"
    /\ buffer' = <<>>
    /\ emitted' = <<>>
    /\ received' = <<>>
    /\ reads' = 0
    /\ UNCHANGED <<connects, supVars, fnVars>>

\* with socket.socket(...) as client_socket: client_socket.connect((host, port))
\* succeeds; buffer = b"".
ConnectOk ==
    /\ relayPc = "connect"
    /\ connects' = connects + 1
    /\ sock' = "connected"
    /\ buffer' = <<>>
    /\ relayPc' = "recv"
    /\ UNCHANGED <<emitted, received, reads, response, requests, supVars, fnVars>>

\* connect raises (nothing listens on the sink port) while the response is
\* being streamed: the `with` closes the socket, the generator ends with the
\* exception, and the response already begun ends without a part.
ConnectFails ==
    /\ relayPc = "connect"
    /\ connects' = connects + 1
    /\ sock' = "closed"
    /\ relayPc' = "failed"
    /\ response' = "stream_aborted"
    /\ UNCHANGED <<buffer, emitted, received, reads, requests, supVars, fnVars>>

\* data = client_socket.recv(4096) returns bytes; buffer += data.
Recv ==
    /\ relayPc = "recv"
    /\ reads < MaxReads
    /\ \E data \in Chunks :
        /\ buffer' = AppendData(buffer, data)
        /\ received' = received \o data
    /\ reads' = reads + 1
    /\ relayPc' = "split"
    /\ UNCHANGED <<emitted, response, sock, requests, connects, supVars, fnVars>>

\* A relay that connects again when the upstream side closes.
UpstreamClosed_Reconnects ==
    /\ relayPc = "recv"
    /\ relayPc' = "connect"
    /\ sock' = "none"
    /\ UNCHANGED <<buffer, emitted, received, reads, response, requests, connects,
                   supVars, fnVars>>

\* recv returns b"": break, the `with` closes the socket and the generator
\* is exhausted.
UpstreamClosed ==
    /\ relayPc = "recv"
    /\ relayPc' = "closed"
    /\ sock' = "closed"
    /\ UNCHANGED <<buffer, emitted, received, reads, response, requests, connects,
                   supVars, fnVars>>

\* One iteration of `while b"\r\n\r\n" in buffer:`, or the end of the loop.
SplitStep ==
    /\ relayPc = "split"
    /\ IF FindDelim(buffer) # 0
       THEN /\ buffer' = Partition(buffer).rest
            /\ emitted' =
                IF Decodes(Partition(buffer).frame)
                THEN Append(emitted, Part(Partition(buffer).frame))
                ELSE emitted
            /\ UNCHANGED relayPc
       ELSE /\ relayPc' = "recv"
            /\ UNCHANGED <<buffer, emitted>>
    /\ UNCHANGED <<received, reads, response, sock, requests, connects, supVars, fnVars>>

RelayInit == SupStart(DefaultArgs(None, 1), {PrimXml, ParentLabels}) /\ RelayIdle /\ FnIdle

RelayNext ==
    \/ Request
    \/ ConnectOk
    \/ ConnectFails
    \/ Recv
    \/ UpstreamClosed
    \/ SplitStep

RelaySpec == RelayInit /\ [][RelayNext]_vars

(***************************************************************************)
(* The pure functions called on their own: one call, drawn from the        *)
(* arguments below, and what it returns or raises.                         *)
(***************************************************************************)
\* Longest parenthesized per-stream list in the calls of filter_result.
MaxList == 3

\* Largest number_of_streams in the calls of the builder.
MaxStreams == 4

\* Items of the parenthesized list.
Rates == {610, 640, BadTok}

Lists == UNION {[1..k -> Rates] : k \in 0..MaxList}

FilterCalls ==
    {[fn |-> "filter_result", line |-> Line(m, 1250, s, 625, h, l), t |-> t] :
        m \in BOOLEAN, s \in 0..(MaxList + 1), h \in BOOLEAN, t \in 0..MaxTime,
        l \in Lists}

\* --id values: absent, or any int.
CallIds == {None} \cup {Some(i) : i \in (-5..5) \cup {42}}

NotifierCalls ==
    {[fn |-> "update_payload_status", workload_id |-> id, status |-> st] :
        id \in CallIds, st \in {"active", "error"}}

Widths == {1, 7, 640, 1920}

Heights == {1, 5, 480, 1080}

CompositorCalls ==
    {[fn |-> "build_compositor_props", num_streams |-> n, final_width |-> w,
      final_height |-> h] : n \in 0..MaxStreams, w \in Widths, h \in Heights}

\* --input values of each kind the string tests tell apart.
Sources ==
    {Source("../assets/media/people-detection.mp4", FALSE, FALSE, TRUE, FALSE),
     Source("rtsp://10.0.0.2/stream", FALSE, FALSE, FALSE, TRUE),
     Source("/dev/video0", TRUE, FALSE, FALSE, FALSE),
     Source("0", FALSE, TRUE, FALSE, FALSE),
     Source("webcam", FALSE, FALSE, FALSE, FALSE),
     Source("/dev/video0.mp4", TRUE, FALSE, TRUE, FALSE),
     Source("rtsp://10.0.0.2/clip.mp4", FALSE, FALSE, TRUE, TRUE)}

Devices == {Device("CPU", FALSE, TRUE), Device("GPU", TRUE, FALSE)}

BuilderCalls ==
    {[fn |-> "build_pipeline", args_number_of_streams |-> m, input |-> i,
      number_of_streams |-> n, device |-> d, decode_device |-> dd,
      model_label_path |-> lp, model_proc_path |-> pp] :
        m \in 0..MaxStreams, i \in Sources, n \in 0..MaxStreams, d \in Devices,
        dd \in Devices, lp \in {NoPath, PrimLabels}, pp \in {NoPath, PrimProc}}

LocatorCalls == {[fn |-> "get_model_path", files |-> f] : f \in SUBSET Files}

Calls == FilterCalls \cup NotifierCalls \cup CompositorCalls \cup BuilderCalls \cup LocatorCalls

Returned(v) == Some([raised |-> "none", value |-> v])

Raised(e) == Some([raised |-> e, value |-> None])

CallFilterResult ==
    /\ call.fn = "filter_result"
    /\ result = None
    /\ result' =
        IF FilterRaises(call.line) THEN Raised("ValueError")
        ELSE Returned(filter_result(call.line, call.t))
    /\ UNCHANGED <<call, supVars, relayVars>>

CallUpdatePayloadStatus ==
    /\ call.fn = "update_payload_status"
    /\ result = None
    /\ result' = Returned(update_payload_status(call.workload_id, call.status))
    /\ UNCHANGED <<call, supVars, relayVars>>

CallBuildCompositorProps ==
    /\ call.fn = "build_compositor_props"
    /\ result = None
    /\ result' =
        IF CompositorRaises(call.num_streams) THEN Raised("ZeroDivisionError")
        ELSE Returned(build_compositor_props(call.num_streams, call.final_width,
                                             call.final_height))
    /\ UNCHANGED <<call, supVars, relayVars>>

\* build_pipeline(...) with its parameters, under the process-wide args it
\* reads: build_compositor_props(args.number_of_streams, ...) is what raises.
CallBuildPipeline ==
    /\ call.fn = "build_pipeline"
    /\ result = None
    /\ result' =
        IF CompositorRaises(call.args_number_of_streams) THEN Raised("ZeroDivisionError")
        ELSE Returned(build_pipeline(DefaultArgs(None, call.args_number_of_streams), 5000,
                                     call.input, PrimXml, call.model_label_path,
                                     call.model_proc_path, call.device,
                                     call.decode_device, 1, call.number_of_streams))
    /\ UNCHANGED <<call, supVars, relayVars>>

CallGetModelPath ==
    /\ call.fn = "get_model_path"
    /\ result = None
    /\ \E r \in get_model_path(call.files) : result' = Returned(r)
    /\ UNCHANGED <<call, supVars, relayVars>>

PureInit ==
    /\ SupStart(DefaultArgs(None, 1), {})
    /\ RelayIdle
    /\ call \in Calls
    /\ result = None

PureNext ==
    \/ CallFilterResult
    \/ CallUpdatePayloadStatus
    \/ CallBuildCompositorProps
    \/ CallBuildPipeline
    \/ CallGetModelPath

PureSpec == PureInit /\ [][PureNext]_vars

(***************************************************************************)
(* Properties.                                                             *)
(***************************************************************************)
Range(q) == {q[i] : i \in 1..Len(q)}

Live == {i \in 1..Len(procs) : procs[i] = "running"}

ActiveCount == Cardinality({i \in 1..Len(notifyLog) : notifyLog[i] = "active"})

\* run_pipeline is not running: main is between two calls of it.
BetweenRuns == supPc \in {"returned_to_loop", "sleep", "build", "popen"}

\* C1 (as claimed): once a pipeline process has been spawned, the supervisor
\* never reaches a terminal state on its own: it neither returns nor dies,
\* so every exit is followed by the cooldown and a new spawn.
C1_NeverTerminal == procs # <<>> => supPc \notin {"crashed", "returned"}

\* C2 (as claimed): when the supervisor is about to start a further process,
\* the previous one has exited and both of its output streams were read to
\* end-of-stream, and no two processes are live at once.
C2_DrainedBeforeRestart ==
    /\ Cardinality(Live) <= 1
    /\ (supPc = "popen" /\ procs # <<>>) => (Live = {} /\ eof.out /\ eof.err)

\* C2 (amended): at most one process is live at any time; between two runs
\* of run_pipeline no process is live; and the streams of the previous
\* process were both read to end-of-stream unless its run raised.
C2_AtMostOneLive ==
    /\ Cardinality(Live) <= 1
    /\ BetweenRuns => Live = {}
    /\ (BetweenRuns /\ procs # <<>> /\ ~excSeen) => (eof.out /\ eof.err)

\* C2 witness: a second process is running, the first one having exited, so
\* exactly one process is live after a restart.
C2_Witness == Len(procs) >= 2 /\ CurAlive /\ Cardinality(Live) = 1

\* C3 (as claimed): a run_pipeline call in which the spawn, the draining or
\* the exit failed returns to the loop: nothing escapes it and the
\* supervisor does not die.
C3_FailuresReturnToLoop == excSeen => (supPc # "crashed" /\ raised # "UnboundLocalError")

\* C4 (as claimed): the process is never blocked writing to stderr while
\* the supervisor is blocked reading an empty, still open stdout.
C4_NoCrossBlocking ==
    ~(/\ CurAlive
      /\ procBlocked = "stderr"
      /\ supPc = "stdout_loop"
      /\ stdoutBuf = <<>>
      /\ stdoutOpen)

\* The snapshots one update can leave: the skeleton, or all five fields of
\* one filter_result call.
CompleteSnapshots ==
    {Skeleton} \cup
    {filter_result(l, t)[1] : l \in {x \in StdoutLines : x.match /\ ~FilterRaises(x)},
                              t \in 0..MaxTime}

\* C5: the stored snapshot is always the dict of the most recent matching
\* line as a whole, only the supervisor's stdout loop changes it, and every
\* /api/metrics response carries that snapshot: five fields of one update.
C5_ReadsSeeOneUpdate ==
    /\ [](/\ pipeline_metrics = lastUpdate
          /\ lastRead # None =>
                (lastRead[1].status = "success" /\ lastRead[1].data \in CompleteSnapshots))
    /\ [][/\ pipeline_metrics' # pipeline_metrics =>
                (supPc = "stdout_loop" /\ stdoutBuf' = Tail(stdoutBuf))
          /\ lastRead' # lastRead => lastRead'[1].data = lastUpdate]_vars

\* C5 witness: a response that shows one complete update, read before a
\* later update replaced it.
C5_Witness ==
    /\ lastRead # None
    /\ lastRead[1].data # Skeleton
    /\ pipeline_metrics # Skeleton
    /\ lastRead[1].data.total_fps # pipeline_metrics.total_fps

\* C6 (as claimed): once the worker has exited, no pipeline process is
\* still running.
C6_NoProcessOutlivesWorker == worker = "exited" => Live = {}

\* C7: when the locator found no weights file, no pipeline is built, no
\* process is spawned, "active" is never reported, and main returns having
\* reported "error" exactly when a workload id is configured.
C7_NoWeightsNoPipeline ==
    (supPc # "main" /\ assets.model_path = NoPath) =>
        /\ supPc \in {"notfound", "returned"}
        /\ pipeline = <<>>
        /\ procs = <<>>
        /\ "active" \notin Range(notifyLog)
        /\ supPc = "returned" =>
              notifyLog = (IF IdTruthy(args.id) THEN <<"error">> ELSE <<>>)

\* C7 witness: main has returned after reporting "error".
C7_Witness == supPc = "returned" /\ notifyLog = <<"error">> /\ assets = NotFound

\* C8 (as claimed): a missing weights file does not end the supervisor.
C8_LoopSurvivesNotFound == supPc # "returned"

\* C8 (amended): after a missing weights file main returns, and from then
\* on the supervisor stays returned: it never locates again and never
\* builds or spawns, whatever appears on disk.
C8_NotFoundIsFinal ==
    [][/\ supPc = "notfound" => supPc' \in {"notfound", "returned"}
       /\ supPc = "returned" =>
            (supPc' = "returned" /\ assets' = assets /\ pipeline' = pipeline
             /\ procs' = procs)]_vars

\* C8 witness: the weights file is on disk, the worker serves, and the
\* supervisor has returned for good.
C8_Witness ==
    /\ supPc = "returned"
    /\ worker = "serving"
    /\ get_model_path(fs) # {NotFound}
    /\ procs = <<>>

\* C9 (as claimed): "active" has been reported only if a process has been
\* spawned.
C9_ActiveOnlyAfterSpawn == "active" \in Range(notifyLog) => procs # <<>>

\* C9 (amended): "active" is reported at most once, after the model was
\* located, and with a workload id configured it has been reported by the
\* time main first builds a pipeline, before any spawn.
C9_ActiveOnceBeforeLoop ==
    /\ ActiveCount <= 1
    /\ ActiveCount = 1 => (assets.model_path # NoPath /\ supPc \notin {"main", "notfound", "found"})
    /\ (IdTruthy(args.id) /\ supPc \notin {"main", "notfound", "found", "returned"}) =>
            ActiveCount = 1

\* C9 witness: the pipeline has been restarted and "active" was sent once.
C9_Witness == Len(procs) >= 2 /\ ActiveCount = 1

\* The complete marker-delimited units of a byte stream, in order, and the
\* bytes after the last marker, by one scan from the left.
RECURSIVE Scan(_, _, _)
Scan(rest, cur, units) ==
    IF rest = <<>> THEN [units |-> units, rem |-> cur]
    ELSE LET c == Append(cur, Head(rest)) IN
         IF Len(c) >= 4 /\ SubSeq(c, Len(c) - 3, Len(c)) = Delim
         THEN Scan(Tail(rest), <<>>, Append(units, SubSeq(c, 1, Len(c) - 4)))
         ELSE Scan(Tail(rest), c, units)

RECURSIVE PartsOf(_)
PartsOf(units) ==
    IF units = <<>> THEN <<>>
    ELSE (IF Decodes(Head(units)) THEN <<Part(Head(units))>> ELSE <<>>) \o PartsOf(Tail(units))

\* C10: whatever the reads were, the parts yielded so far followed by those
\* still to come from the buffer are exactly one part per complete unit of
\* the bytes received that decodes, in order; between reads the buffer is
\* exactly the bytes after the last marker.
C10_OnePartPerUnit ==
    relayPc \in {"recv", "split", "closed"} =>
        /\ emitted \o PartsOf(Scan(buffer, <<>>, <<>>).units)
              = PartsOf(Scan(received, <<>>, <<>>).units)
        /\ Scan(buffer, <<>>, <<>>).rem = Scan(received, <<>>, <<>>).rem
        /\ relayPc # "split" =>
              (/\ emitted = PartsOf(Scan(received, <<>>, <<>>).units)
               /\ buffer = Scan(received, <<>>, <<>>).rem)

\* C10 witness: one read of two complete frames and the start of a third
\* gave two parts and left the start of the third in the buffer.
C10_Witness ==
    /\ relayPc = "recv"
    /\ reads = 1
    /\ Len(Scan(received, <<>>, <<>>).units) = 2
    /\ Len(emitted) = 2
    /\ buffer = Frame

\* C11: every /result request makes exactly one connect call on a socket of
\* its own; once the upstream side has closed the connection the socket is
\* closed, no part is yielded and nothing is read or connected again, until
\* a later request, which makes a connect call of its own.
C11_OneConnectionPerRequest ==
    /\ [](/\ connects = (IF relayPc = "connect" THEN requests - 1 ELSE requests)
          /\ relayPc \in {"recv", "split"} => sock = "connected"
          /\ relayPc \in {"closed", "failed"} => sock = "closed")
    /\ [][relayPc = "closed" =>
            \/ /\ relayPc' = "closed"
               /\ UNCHANGED <<sock, connects, emitted, received, reads, requests>>
            \/ /\ relayPc' = "connect"
               /\ requests' = requests + 1
               /\ sock' = "none"
               /\ connects' = connects]_vars

\* C11 witness: after the first request's connection ended, a second request
\* is connected by a connect call of its own and has relayed a part.
C11_Witness ==
    /\ requests = 2
    /\ connects = 2
    /\ sock = "connected"
    /\ relayPc = "recv"
    /\ emitted # <<>>

\* C12: a request whose connection to the sink port could not be
\* established is answered with the JSON error envelope.
C12_SetupFailureGetsEnvelope == relayPc = "failed" => response = "json_error"

\* A line of the grammar: fps_pattern matches and every item of the
\* parenthesized list, if there is one, is a number.
MatchesGrammar(line) ==
    line.match /\ \A i \in 1..Len(line.list) : (line.hasList => line.list[i] # BadTok)

\* The step is one iteration of `for line in process.stdout:`.
StdoutLineRead ==
    supPc = "stdout_loop" /\ stdoutBuf # <<>> /\ stdoutBuf' = Tail(stdoutBuf)

\* C13: reading a line that is not of the grammar leaves the snapshot as it
\* was, reading a line of the grammar makes the snapshot the one extracted
\* from that line, and nothing else changes the snapshot: the snapshot is
\* always that of the last line of the grammar read.
C13_NonMatchingKeepsSnapshot ==
    [][IF StdoutLineRead /\ MatchesGrammar(Head(stdoutBuf))
       THEN pipeline_metrics' = filter_result(Head(stdoutBuf), now)[1]
       ELSE pipeline_metrics' = pipeline_metrics]_vars

\* C13 witness: with a snapshot already extracted, the line read last was
\* one without a match.
C13_Witness ==
    /\ lastLine = Some(LineOther)
    /\ pipeline_metrics # Skeleton
    /\ pipeline_metrics = lastUpdate
    /\ supPc = "stdout_loop"

MetricsKeys == {"total_fps", "number_streams", "average_fps_per_stream", "fps_streams", "timestamp"}

AllNull(d) == \A k \in MetricsKeys : d[k] = None

AllSet(d) == \A k \in MetricsKeys : d[k] # None

Done(fn) == call.fn = fn /\ result # None /\ result[1].raised = "none"

\* C15 as stated: keys 1..min(s, length) in list order for a list that is
\* present, the single entry {1: average} for a list that is absent, for
\* every declared stream count s.
C15_AbsentListGivesOneEntry ==
    (Done("filter_result") /\ call.line.match) =>
        LET line == call.line
            fps_streams == result[1].value[1].fps_streams[1]
        IN IF line.hasList /\ line.list # <<>>
           THEN /\ DOMAIN fps_streams = 1..MinOf(line.streams, Len(line.list))
                /\ \A i \in DOMAIN fps_streams : fps_streams[i] = line.list[i]
           ELSE fps_streams = <<line.avg>>

\* C15: keys 1..min(s, length) in list order for a list that is present;
\* for a list that is absent (or empty), the single entry {1: average} when
\* s >= 1 and the empty mapping when s = 0.
C15_TruncatedToDeclaredCount ==
    (Done("filter_result") /\ call.line.match) =>
        LET line == call.line
            fps_streams == result[1].value[1].fps_streams[1]
        IN IF line.hasList /\ line.list # <<>>
           THEN /\ DOMAIN fps_streams = 1..MinOf(line.streams, Len(line.list))
                /\ \A i \in DOMAIN fps_streams : fps_streams[i] = line.list[i]
           ELSE fps_streams = (IF line.streams >= 1 THEN <<line.avg>> ELSE <<>>)

\* C15 witness: a line declaring 0 streams without a list gave the empty
\* mapping.
C15_Witness ==
    /\ Done("filter_result")
    /\ call.line.match
    /\ ~call.line.hasList
    /\ call.line.streams = 0
    /\ result[1].value[1].fps_streams = Some(<<>>)

\* C16: a call with an id that is not a positive integer issues no request;
\* a call with a positive id issues exactly one PATCH, to
\* http://127.0.0.1:8080/api/workloads/{id}, carrying the status.
C16_OnlyPositiveIdsArePatched ==
    Done("update_payload_status") =>
        LET id == call.workload_id
            reqs == result[1].value
        IN IF id # None /\ id[1] >= 1
           THEN /\ Len(reqs) = 1
                /\ reqs[1].method = "PATCH"
                /\ reqs[1].url = [scheme |-> "http", netloc |-> "127.0.0.1:8080",
                                  path |-> <<"/api/workloads/", id[1]>>]
                /\ reqs[1].status = call.status
           ELSE reqs = <<>>

\* C16 witness: the call for id 42 and "active" issued its one PATCH.
C16_Witness ==
    /\ Done("update_payload_status")
    /\ call.workload_id = Some(42)
    /\ call.status = "active"
    /\ Len(result[1].value) = 1

\* C17: a step that issues the status PATCH, whatever its outcome, raises
\* nothing and takes the supervisor where the code after the call goes:
\* on to building after "active", out of main after "error"; the outcome
\* is kept nowhere but in the log of requests.
C17_OutcomeNeverReachesSupervisor ==
    [][patchLog' # patchLog =>
        /\ supPc \in {"found", "notfound"}
        /\ supPc' = (IF supPc = "found" THEN "build" ELSE "returned")
        /\ raised = "none" /\ raised' = "none"
        /\ patchLog' \in {Append(patchLog, [req |-> update_payload_status(args.id, st)[1],
                                            outcome |-> o]) :
                             st \in {IF supPc = "found" THEN "active" ELSE "error"},
                             o \in Outcomes}
        /\ notifyLog' = Append(notifyLog, IF supPc = "found" THEN "active" ELSE "error")
        /\ UNCHANGED <<args, fs, worker, assets, pipeline, processVar, procs, returncode,
                       stdoutBuf, lastLine, stderrBuf, stdoutOpen, stderrOpen, procBlocked,
                       eof, excSeen, pipeline_metrics, lastUpdate, lastRead, now,
                       sleepLeft>>]_vars

\* C17 witness: the "active" callback failed at the network level and the
\* supervisor has spawned, drained and restarted the pipeline all the same.
C17_Witness ==
    /\ patchLog # <<>>
    /\ patchLog[1].outcome = "unreachable"
    /\ patchLog[1].req.status = "active"
    /\ Len(procs) >= 2
    /\ CurAlive

\* Columns and rows of the grid for n streams, by their defining
\* inequalities.
GridCols(n) == CHOOSE c \in 1..n : c * c >= n /\ (c - 1) * (c - 1) < n

GridRows(n) == CHOOSE r \in 1..n : r * GridCols(n) >= n /\ (r - 1) * GridCols(n) < n

\* C18: for n >= 1 the layout has one tuple per stream index 0..n-1,
\* row-major on a grid of ceil(sqrt(n)) columns and ceil(n / columns) rows,
\* every cell floor(W / columns) by floor(H / rows), and the cells fall
\* short of W and H by less than one pixel per column and per row.
C18_GridCoversStreams ==
    (Done("build_compositor_props") /\ call.num_streams >= 1) =>
        LET n == call.num_streams
            W == call.final_width
            H == call.final_height
            props == result[1].value
            width == W \div GridCols(n)
            height == H \div GridRows(n)
        IN /\ Len(props) = n
           /\ \A j \in 1..n :
                /\ props[j].sink = j - 1
                /\ props[j].width = width
                /\ props[j].height = height
                /\ props[j].xpos = ((j - 1) % GridCols(n)) * width
                /\ props[j].ypos = ((j - 1) \div GridCols(n)) * height
           /\ 0 <= W - GridCols(n) * width /\ W - GridCols(n) * width < GridCols(n)
           /\ 0 <= H - GridRows(n) * height /\ H - GridRows(n) * height < GridRows(n)

\* C18 witness: three streams at 640 x 480 are laid out on a 2 x 2 grid,
\* the third at the start of the second row.
C18_Witness ==
    /\ Done("build_compositor_props")
    /\ call.num_streams = 3
    /\ call.final_width = 640
    /\ call.final_height = 480
    /\ result[1].value[3] = [sink |-> 2, xpos |-> 0, ypos |-> 240, width |-> 320, height |-> 240]

\* How many tokens of a pipeline are the token t.
Count(tokens, t) == Cardinality({i \in 1..Len(tokens) : tokens[i] = t})

\* The source is a camera: no video-file extension and no rtsp scheme.
IsCamera(input) == ~input.videoExt /\ ~input.rtsp

\* C19: a camera source with more than one stream gives one capture stage,
\* one fan-out point and one leaky-queue branch per stream; anything else
\* gives one source per stream and no fan-out; the capture stage and the
\* fan-out name never appear more than once.
C19_SharedCaptureForCameras ==
    Done("build_pipeline") =>
        LET tokens == result[1].value
            n == call.number_of_streams
        IN /\ IF IsCamera(call.input) /\ n > 1
              THEN /\ Count(tokens, Tok("v4l2src")) = 1
                   /\ Count(tokens, Tok("name=camtee")) = 1
                   /\ Count(tokens, Tok("camtee.")) = n
                   /\ Count(tokens, Tok("leaky=downstream")) = n
              ELSE /\ Count(tokens, Tok("v4l2src")) + Count(tokens, Tok("multifilesrc"))
                        + Count(tokens, Tok("rtspsrc")) = n
                   /\ Count(tokens, Tok("name=camtee")) = 0
           /\ Count(tokens, Tok("v4l2src")) <= 1
           /\ Count(tokens, Tok("name=camtee")) <= 1

\* The auxiliary files: labels and model-proc, wherever they are looked for.
AuxFiles == {PrimLabels, PrimProc, ParentLabels, ParentProc, CustomLabels, CustomProc}

\* C20: no weights path is returned exactly when neither the primary
\* weights file nor any custom *.xml file exists; the weights path returned
\* is one the locator returns with every labels and model-proc file taken
\* away; a labels or model-proc path returned is a file that exists, and a
\* missing one is reported as absent, never raised.
C20_NotFoundIffNoWeights ==
    (call.fn = "get_model_path" /\ result # None) =>
        LET files == call.files
            r == result[1].value
        IN /\ result[1].raised = "none"
           /\ r.model_path = NoPath <=> (PrimXml \notin files /\ CustomXmls \cap files = {})
           /\ r.model_path \in {q.model_path : q \in get_model_path(files \ AuxFiles)}
           /\ r.model_path # NoPath => r.model_path \in files
           /\ r.labels_path \in (files \cap AuxFiles) \cup {NoPath}
           /\ r.model_proc_path \in (files \cap AuxFiles) \cup {NoPath}

\* C20 witness: only a custom *.xml file exists, with neither labels nor
\* model-proc: its path is returned and the other two are absent.
C20_Witness ==
    /\ Done("get_model_path")
    /\ call.files = {"custom/a.xml"}
    /\ result[1].value = [model_path |-> "custom/a.xml", labels_path |-> NoPath,
                          model_proc_path |-> NoPath]

\* The compositor inputs a pipeline gives a position to, and those a branch
\* ends in.
PositionedSinks(tokens) ==
    {tokens[i].n[1] : i \in {j \in 1..Len(tokens) : tokens[j].k = "sink_::xpos="}}

ConnectedSinks(tokens) ==
    {tokens[i].n[1] : i \in {j \in 1..Len(tokens) : tokens[j].k = "comp.sink_"}}

PastStdoutLoop ==
    supPc \in {"stderr_loop", "check_returncode", "communicate", "except", "finally",
               "returned_to_loop", "sleep", "build", "popen"}

\* C22: the snapshot is left as it is by every step in which a process
\* exits or is terminated, is reaped or spawned, the cooldown runs, or the
\* supervisor is anywhere but at its stdout loop; and a response carries
\* the snapshot as it then is, whatever instance it was parsed from.
C22_SnapshotSurvivesRestarts ==
    [][/\ (procs' # procs \/ sleepLeft' # sleepLeft \/ PastStdoutLoop \/ PastStdoutLoop') =>
            pipeline_metrics' = pipeline_metrics
       /\ (lastRead' # lastRead /\ procs' = procs) =>
            (lastRead' = Some([data |-> pipeline_metrics, status |-> "success"])
             /\ pipeline_metrics' = pipeline_metrics)]_vars

\* C22 witness: the second process is running and none of its lines has
\* been read; the snapshot is still the one parsed from the first process,
\* with its earlier timestamp, and it is what /api/metrics last returned.
C22_Witness ==
    /\ Len(procs) = 2
    /\ CurAlive
    /\ supPc = "stdout_loop"
    /\ lastLine = None
    /\ AllSet(pipeline_metrics)
    /\ pipeline_metrics.timestamp[1] < now
    /\ lastRead = Some([data |-> pipeline_metrics, status |-> "success"])

\* The class of the source stage and of the decode stage of a call.
SourceClass(input, n) ==
    LET head == SourceCommand(input, n)[1].k
    IN IF head = "multifilesrc" THEN "file" ELSE IF head = "rtspsrc" THEN "stream" ELSE "camera"

DecodeClass(input, decode_device) ==
    LET d == DecodeElement(input, decode_device)
    IN IF d[1].k = "decodebin3" THEN "file"
       ELSE IF d[1].k = "rtph264depay" THEN "stream" ELSE "camera"

\* C23: the source stage and the decode stage of every pipeline are of the
\* same class, and both stages are in the pipeline returned.
C23_SourceAndDecodeAgree ==
    (Done("build_pipeline") /\ call.number_of_streams >= 1) =>
        /\ SourceClass(call.input, call.number_of_streams)
              = DecodeClass(call.input, call.decode_device)
        /\ Count(result[1].value, SourceCommand(call.input, call.number_of_streams)[1]) >= 1
        /\ Count(result[1].value, DecodeElement(call.input, call.decode_device)[1]) >= 1

=============================================================================
